---- MODULE Spec2Model ----
(***************************************************************************)
(* Lifecycle of the RocksDB storage adapter of bee                         *)
(* (bee-storage-rocksdb/src/storage.rs): start, get_health, set_health,    *)
(* size and shutdown over the two system records (Version, Health) kept in *)
(* the "system" column family, with engine failures and process stops      *)
(* (Spec); the snapshot facade of bee-snapshot (SpecFacade); and the loop  *)
(* of the heartbeater worker of bee-protocol (SpecHeartbeater).            *)
(***************************************************************************)
EXTENDS Integers, Sequences, FiniteSets, TLC

(* ---------------------------------------------------------------------- *)
(* Bounds                                                                  *)
(* ---------------------------------------------------------------------- *)
MaxVersion == 2      \* versions a store on disk may carry: 0..MaxVersion
MaxCalls == 3        \* calls of start made over all runs
NumCallers == 2      \* callers sharing a reference to the live adapter
MaxFiles == 2        \* live data files the engine keeps
MaxTicks == 6        \* ticks the heartbeat interval produces

(* ---------------------------------------------------------------------- *)
(* System records                                                          *)
(* ---------------------------------------------------------------------- *)
\* system::STORAGE_VERSION; the model depends only on equality with it.
STORAGE_VERSION == 1

Versions == 0..MaxVersion

\* The values of health::StorageHealth that storage.rs uses.
StorageHealth == {"Healthy", "Idle"}

\* The column families handed to DB::open_cf_descriptors.
ColumnFamilies ==
    {"system", "message_id_to_message", "message_id_to_metadata",
     "message_id_to_message_id", "index_to_message_id",
     "output_id_to_created_output", "output_id_to_consumed_output",
     "output_id_unspent", "ed25519_address_to_output_id", "ledger_index",
     "milestone_index_to_milestone", "snapshot_info",
     "solid_entry_point_to_milestone_index", "milestone_index_to_output_diff",
     "address_to_balance", "milestone_index_to_unconfirmed_message",
     "milestone_index_to_receipt", "spent_to_treasury_output"}

CF_SYSTEM == "system"

\* A store written by an earlier release that did not yet declare the
\* treasury and receipt partitions.
OlderColumnFamilies ==
    ColumnFamilies \ {"milestone_index_to_receipt", "spent_to_treasury_output"}

\* Option<System> as found under a key of the system column family.
NoRecord == [tag |-> "None", ver |-> 0, health |-> "-"]
VersionRec(v) == [tag |-> "Version", ver |-> v, health |-> "-"]
HealthRec(h) == [tag |-> "Health", ver |-> 0, health |-> h]

SystemRecords ==
    {NoRecord} \cup {VersionRec(v) : v \in Versions}
               \cup {HealthRec(h) : h \in StorageHealth}

(* ---------------------------------------------------------------------- *)
(* Results of calls                                                        *)
(* ---------------------------------------------------------------------- *)
Res(op, kind, stored, expected, health) ==
    [op |-> op, kind |-> kind, stored |-> stored, expected |-> expected,
     health |-> health, size |-> 0]

NoResult == Res("-", "-", 0, 0, "-")
Pending(op) == Res(op, "pending", 0, 0, "-")
Ok(op) == Res(op, "Ok", 0, 0, "-")
OkSome(op, h) == Res(op, "OkSome", 0, 0, h)
OkNone(op) == Res(op, "OkNone", 0, 0, "-")
EngineError(op) == Res(op, "Engine", 0, 0, "-")
VersionMismatch(v, w) == Res("start", "VersionMismatch", v, w, "-")
UnhealthyStorage(h) == Res("start", "UnhealthyStorage", 0, 0, h)
Panicked(op) == Res(op, "panic", 0, 0, "-")
OkSomeSize(n) == [Res("size", "OkSome", 0, 0, "-") EXCEPT !.size = n]

\* One call issued to the engine and whether it succeeded.
Ev(call, arg, ok) == [call |-> call, arg |-> arg, ok |-> ok]

NoOp == [op |-> "-", arg |-> "-"]

Callers == 1..NumCallers

\* Sizes a live data file may have.
FileSizes == {1, 2}

\* The live files after a flush: a flush of a non-empty memtable adds one.
FlushOutcomes(f) ==
    {f} \cup (IF Len(f) < MaxFiles THEN {Append(f, n) : n \in FileSizes}
                                   ELSE {})

\* Variant: the loop assigns file.size instead of adding it.
SumSizes_LastOnly(f) == IF f = <<>> THEN 0 ELSE f[Len(f)]

\* size: the loop that adds up file.size over live_files().
RECURSIVE SumSizes(_)
SumSizes(f) == IF f = <<>> THEN 0 ELSE Head(f) + SumSizes(Tail(f))

VARIABLES
    store,      \* persisted system records: [version, health]
    cfs,        \* column families that exist in the store on disk
    files,      \* sizes of the engine's live data files
    handle,     \* TRUE while this process holds the open DB
    adapter,    \* "none" | "live" | "consumed": the Storage value
    pc,         \* position of the owner's start / shutdown call
    result,     \* result of the owner's latest start / shutdown call
    trace,      \* engine calls issued by the owner's latest call
    pre,        \* system records when the owner's latest call began
    inflight,   \* per caller: the &self operation it is executing
    cres,       \* result of the latest completed caller operation
    calls,      \* number of start calls made
    setHealthCalled, \* a caller invoked set_health on the current adapter
    last,       \* how the previous run of the adapter ended
    startCtx,   \* value of last when the latest start began
    lastSet,    \* value of the latest set_health a caller completed with Ok
    seen,       \* what get_health returned to the latest start
    refused,    \* the first VersionMismatch / UnhealthyStorage start returned
    refusals,   \* number of starts that returned one of these two errors
    implemented, \* capabilities a candidate backend type implements
    verdict,    \* whether the snapshot facade holds for that type
    hbPc,       \* position of the heartbeater task
    hbResult,   \* what HeartbeaterWorker::start returned
    signal,     \* the node's shutdown signal has fired
    fired,      \* ticks the interval has produced
    taken,      \* ticks the loop has received from ticker.next()
    beats       \* heartbeats broadcast

facadeVars == <<implemented, verdict>>

hbVars == <<hbPc, hbResult, signal, fired, taken, beats>>

lifeVars == <<store, cfs, files, handle, adapter, pc, result, trace, pre,
              inflight, cres, calls, setHealthCalled, last, startCtx, lastSet,
              seen, refused, refusals>>

vars == <<lifeVars, facadeVars, hbVars>>

(* ---------------------------------------------------------------------- *)
(* Pure parts of start                                                     *)
(* ---------------------------------------------------------------------- *)
\* Variant: a stored version other than the current one is overwritten.
VersionCheck_Overwrites(rec) ==
    CASE rec.tag = "Version" ->
            IF rec.ver # STORAGE_VERSION THEN "insert" ELSE "proceed"
      [] rec.tag = "None" -> "insert"
      [] OTHER -> "panic"

\* Variant: the stored version is not compared with the current one.
VersionCheck_Skipped(rec) ==
    CASE rec.tag = "Version" -> "proceed"
      [] rec.tag = "None" -> "insert"
      [] OTHER -> "panic"

\* Variant: an absent version is accepted without being inserted.
VersionCheck_NoInsert(rec) ==
    CASE rec.tag = "Version" ->
            IF rec.ver # STORAGE_VERSION THEN "mismatch" ELSE "proceed"
      [] rec.tag = "None" -> "proceed"
      [] OTHER -> "panic"

\* The match on the fetched Version record.
VersionCheck(rec) ==
    CASE rec.tag = "Version" ->
            IF rec.ver # STORAGE_VERSION THEN "mismatch" ELSE "proceed"
      [] rec.tag = "None" -> "insert"
      [] OTHER -> "panic"

\* Variant: a record of another kind under the Health key reads as absent.
GetHealthMatch_Tolerant(rec) ==
    CASE rec.tag = "Health" -> "some"
      [] OTHER -> "none"

\* get_health: the match on the fetched Health record.
GetHealthMatch(rec) ==
    CASE rec.tag = "Health" -> "some"
      [] rec.tag = "None" -> "none"
      [] OTHER -> "panic"

\* get_health: what the call returns for the record under the Health key.
GetHealthResult(rec, fetchOk) ==
    IF ~fetchOk THEN EngineError("get_health")
    ELSE CASE GetHealthMatch(rec) = "some" ->
                 OkSome("get_health", rec.health)
           [] GetHealthMatch(rec) = "none" -> OkNone("get_health")
           [] OTHER -> Panicked("get_health")

\* Variant: the comparison with Healthy is inverted.
HealthCheck_Inverted(rec) ==
    IF GetHealthMatch(rec) = "some"
    THEN IF rec.health = "Healthy" THEN "unhealthy" ELSE "proceed"
    ELSE IF GetHealthMatch(rec) = "none" THEN "proceed" ELSE "panic"

\* if let Some(health) = ... { if health != Healthy { return Err } }
HealthCheck(rec) ==
    IF GetHealthMatch(rec) = "some"
    THEN IF rec.health # "Healthy" THEN "unhealthy" ELSE "proceed"
    ELSE IF GetHealthMatch(rec) = "none" THEN "proceed" ELSE "panic"

\* Variant: start records Healthy.
StartHealth_Healthy == "Healthy"

\* The health value start records once the checks have passed.
StartHealth == "Idle"

\* Variant: shutdown records Idle.
ShutdownHealth_Idle == "Idle"

\* The health value shutdown records.
ShutdownHealth == "Healthy"

\* Variant: the result of the write is ignored.
SetIdleContinues_Ignored(ok) == TRUE

\* The ? of storage.set_health(Idle).await?: start goes on only when the
\* write succeeded.
SetIdleContinues(ok) == ok

\* Variant: the result of the write is ignored.
HealthyWriteContinues_Ignored(ok) == TRUE

\* The ? of self.set_health(Healthy).await?: shutdown goes on to the flush
\* only when the write succeeded.
HealthyWriteContinues(ok) == ok

\* Variant: the insert keeps a record that is already there.
InsertHealth_KeepsFirst(s, h) ==
    IF s.health = NoRecord THEN [s EXCEPT !.health = HealthRec(h)] ELSE s

\* set_health: Insert::<u8, System>::insert under STORAGE_HEALTH_KEY puts
\* System::Health(health), replacing the record under that key.
InsertHealth(s, h) == [s EXCEPT !.health = HealthRec(h)]

\* DB::open_cf_descriptors under the configured creation policy.
OpenSucceeds(existing, createIfMissing, createMissingCfs) ==
    /\ (existing = {} => createIfMissing)
    /\ (~(ColumnFamilies \subseteq existing) => createMissingCfs)

(* ---------------------------------------------------------------------- *)
(* Initial state: a directory that is fresh or holds an existing store     *)
(* ---------------------------------------------------------------------- *)
Init ==
    /\ cfs \in {{}, OlderColumnFamilies, ColumnFamilies}
    /\ store \in [version : SystemRecords, health : SystemRecords]
    /\ (cfs = {} => store = [version |-> NoRecord, health |-> NoRecord])
    /\ files \in {<<>>, <<2>>}
    /\ (cfs = {} => files = <<>>)
    /\ handle = FALSE
    /\ adapter = "none"
    /\ pc = "idle"
    /\ result = NoResult
    /\ trace = <<>>
    /\ pre = store
    /\ inflight = [c \in Callers |-> NoOp]
    /\ cres = NoResult
    /\ calls = 0
    /\ setHealthCalled = FALSE
    /\ last = "none"
    /\ startCtx = "none"
    /\ lastSet = "-"
    /\ seen = NoResult
    /\ refused = NoResult
    /\ refusals = 0
    /\ implemented = {}
    /\ verdict = "unchecked"
    /\ hbPc = "unspawned"
    /\ hbResult = "-"
    /\ signal = FALSE
    /\ fired = 0
    /\ taken = 0
    /\ beats = 0

(* ---------------------------------------------------------------------- *)
(* start                                                                   *)
(* ---------------------------------------------------------------------- *)
\* An error return or panic of start: the Storage value is dropped.
StartFails(r, tr) ==
    /\ result' = r
    /\ trace' = IF handle THEN Append(tr, Ev("close", "-", TRUE)) ELSE tr
    /\ handle' = FALSE
    /\ adapter' = "none"
    /\ pc' = "idle"

StartBegin ==
    /\ pc = "idle"
    /\ adapter # "live"
    /\ calls < MaxCalls
    /\ calls' = calls + 1
    /\ pc' = "st_open"
    /\ adapter' = "none"
    /\ result' = Pending("start")
    /\ trace' = <<>>
    /\ pre' = store
    /\ startCtx' = last
    /\ last' = "other"
    /\ cres' = NoResult
    /\ UNCHANGED <<store, cfs, files, handle, inflight, setHealthCalled>>
    /\ lastSet' = "-"
    /\ seen' = NoResult
    /\ UNCHANGED <<refused, refusals>>
    /\ UNCHANGED <<facadeVars, hbVars>>

\* Storage::new: open the engine with every column family, then flush.
StartOpen ==
    /\ pc = "st_open"
    /\ \E createIfMissing, createMissingCfs \in BOOLEAN :
       \E failAt \in {"none", "open", "flush", "flush_cf"} :
       \E f1 \in FlushOutcomes(files) :
       \E f2 \in FlushOutcomes(f1) :
          LET opened == failAt # "open"
                        /\ OpenSucceeds(cfs, createIfMissing, createMissingCfs)
              tOpen == <<Ev("open", "-", opened)>>
              tFlush == Append(tOpen, Ev("flush", "-", failAt # "flush"))
              tFlushCf == Append(tFlush, Ev("flush_cf", CF_SYSTEM,
                                            failAt # "flush_cf"))
          IN  CASE ~opened ->
                     /\ StartFails(EngineError("start"), tOpen)
                     /\ UNCHANGED <<cfs, files>>
                [] opened /\ failAt = "flush" ->
                     /\ cfs' = cfs \cup ColumnFamilies
                     /\ files' = files
                     /\ result' = EngineError("start")
                     /\ trace' = Append(tFlush, Ev("close", "-", TRUE))
                     /\ pc' = "idle"
                     /\ UNCHANGED <<handle, adapter>>
                [] opened /\ failAt = "flush_cf" ->
                     /\ cfs' = cfs \cup ColumnFamilies
                     /\ files' = f1
                     /\ result' = EngineError("start")
                     /\ trace' = Append(tFlushCf, Ev("close", "-", TRUE))
                     /\ pc' = "idle"
                     /\ UNCHANGED <<handle, adapter>>
                [] OTHER ->
                     /\ cfs' = cfs \cup ColumnFamilies
                     /\ files' = f2
                     /\ handle' = TRUE
                     /\ trace' = tFlushCf
                     /\ pc' = "st_version"
                     /\ UNCHANGED <<result, adapter>>
    /\ UNCHANGED <<store, pre, inflight, cres, calls, setHealthCalled, last,
                   startCtx>>
    /\ UNCHANGED <<lastSet, seen, refused, refusals>>
    /\ UNCHANGED <<facadeVars, hbVars>>

\* The version match of start.
StartVersionCheck ==
    /\ pc = "st_version"
    /\ \E fetchOk, insertOk \in BOOLEAN :
          LET tFetch == Append(trace, Ev("fetch", "version", fetchOk))
              tInsert == Append(tFetch, Ev("insert", "version", insertOk))
              d == VersionCheck(store.version)
          IN  IF ~fetchOk
              THEN StartFails(EngineError("start"), tFetch) /\ UNCHANGED store
              ELSE CASE d = "mismatch" ->
                          /\ StartFails(VersionMismatch(store.version.ver,
                                                        STORAGE_VERSION),
                                        tFetch)
                          /\ UNCHANGED store
                     [] d = "proceed" ->
                          /\ pc' = "st_health"
                          /\ trace' = tFetch
                          /\ UNCHANGED <<store, result, handle, adapter>>
                     [] d = "insert" ->
                          IF insertOk
                          THEN /\ store' = [store EXCEPT
                                     !.version = VersionRec(STORAGE_VERSION)]
                               /\ pc' = "st_health"
                               /\ trace' = tInsert
                               /\ UNCHANGED <<result, handle, adapter>>
                          ELSE /\ StartFails(EngineError("start"), tInsert)
                               /\ UNCHANGED store
                     [] OTHER ->
                          /\ StartFails(Panicked("start"), tFetch)
                          /\ UNCHANGED store
    /\ UNCHANGED <<cfs, files, pre, inflight, cres, calls, setHealthCalled,
                   last, startCtx>>
    /\ refused' = IF /\ refused = NoResult
                      /\ result'.kind \in {"VersionMismatch",
                                            "UnhealthyStorage"}
                   THEN result' ELSE refused
    /\ refusals' = IF result'.kind \in {"VersionMismatch", "UnhealthyStorage"}
                    THEN refusals + 1 ELSE refusals
    /\ UNCHANGED <<lastSet, seen>>
    /\ UNCHANGED <<facadeVars, hbVars>>

\* Variant: a start that refuses an unhealthy store resets its Health record.
StartHealthCheck_Repairs ==
    /\ pc = "st_health"
    /\ \E fetchOk \in BOOLEAN :
          LET tFetch == Append(trace, Ev("fetch", "health", fetchOk))
              d == HealthCheck(store.health)
          IN  /\ seen' = GetHealthResult(store.health, fetchOk)
              /\ IF ~fetchOk
                 THEN StartFails(EngineError("start"), tFetch)
                      /\ UNCHANGED store
                 ELSE CASE d = "unhealthy" ->
                             /\ StartFails(
                                   UnhealthyStorage(store.health.health),
                                   tFetch)
                             /\ store' = InsertHealth(store, "Healthy")
                        [] d = "proceed" ->
                             /\ pc' = "st_idle"
                             /\ trace' = tFetch
                             /\ UNCHANGED <<store, result, handle, adapter>>
                        [] OTHER -> StartFails(Panicked("start"), tFetch)
                                    /\ UNCHANGED store
    /\ UNCHANGED <<cfs, files, pre, inflight, cres, calls,
                   setHealthCalled, last, startCtx>>
    /\ refused' = IF /\ refused = NoResult
                      /\ result'.kind \in {"VersionMismatch",
                                            "UnhealthyStorage"}
                   THEN result' ELSE refused
    /\ refusals' = IF result'.kind \in {"VersionMismatch", "UnhealthyStorage"}
                    THEN refusals + 1 ELSE refusals
    /\ UNCHANGED lastSet
    /\ UNCHANGED <<facadeVars, hbVars>>

\* The health check of start.
StartHealthCheck ==
    /\ pc = "st_health"
    /\ \E fetchOk \in BOOLEAN :
          LET tFetch == Append(trace, Ev("fetch", "health", fetchOk))
              d == HealthCheck(store.health)
          IN  /\ seen' = GetHealthResult(store.health, fetchOk)
              /\ IF ~fetchOk
                 THEN StartFails(EngineError("start"), tFetch)
                 ELSE CASE d = "unhealthy" ->
                             StartFails(UnhealthyStorage(store.health.health),
                                        tFetch)
                        [] d = "proceed" ->
                             /\ pc' = "st_idle"
                             /\ trace' = tFetch
                             /\ UNCHANGED <<result, handle, adapter>>
                        [] OTHER -> StartFails(Panicked("start"), tFetch)
    /\ UNCHANGED <<store, cfs, files, pre, inflight, cres, calls,
                   setHealthCalled, last, startCtx>>
    /\ refused' = IF /\ refused = NoResult
                      /\ result'.kind \in {"VersionMismatch",
                                            "UnhealthyStorage"}
                   THEN result' ELSE refused
    /\ refusals' = IF result'.kind \in {"VersionMismatch", "UnhealthyStorage"}
                    THEN refusals + 1 ELSE refusals
    /\ UNCHANGED lastSet
    /\ UNCHANGED <<facadeVars, hbVars>>

\* storage.set_health(Idle) and Ok(storage).
StartSetIdle ==
    /\ pc = "st_idle"
    /\ \E ok \in BOOLEAN :
          LET tPut == Append(trace, Ev("set_health", StartHealth, ok))
          IN  IF SetIdleContinues(ok)
              THEN /\ store' = IF ok THEN InsertHealth(store, StartHealth)
                                     ELSE store
                   /\ adapter' = "live"
                   /\ result' = Ok("start")
                   /\ trace' = tPut
                   /\ pc' = "idle"
                   /\ setHealthCalled' = FALSE
                   /\ UNCHANGED handle
              ELSE /\ StartFails(EngineError("start"), tPut)
                   /\ UNCHANGED <<store, setHealthCalled>>
    /\ UNCHANGED <<cfs, files, pre, inflight, cres, calls, last, startCtx>>
    /\ UNCHANGED <<lastSet, seen, refused, refusals>>
    /\ UNCHANGED <<facadeVars, hbVars>>

(* ---------------------------------------------------------------------- *)
(* Operations on a shared reference to the live adapter                    *)
(* ---------------------------------------------------------------------- *)
\* A caller borrows the adapter and enters get_health, size or set_health.
CallBegin(c) ==
    /\ adapter = "live"
    /\ inflight[c] = NoOp
    /\ \/ /\ \E op \in {"get_health", "size"} :
                inflight' = [inflight EXCEPT ![c] = [op |-> op, arg |-> "-"]]
          /\ UNCHANGED setHealthCalled
       \/ \E h \in StorageHealth :
          /\ inflight' = [inflight EXCEPT ![c] = [op |-> "set_health",
                                                  arg |-> h]]
          /\ setHealthCalled' = TRUE
    /\ UNCHANGED <<store, cfs, files, handle, adapter, pc, result, trace,
                   pre, cres, calls, last, startCtx>>
    /\ UNCHANGED <<lastSet, seen, refused, refusals>>
    /\ UNCHANGED <<facadeVars, hbVars>>

GetHealth(c) ==
    /\ inflight[c].op = "get_health"
    /\ \E fetchOk \in BOOLEAN :
          cres' = GetHealthResult(store.health, fetchOk)
    /\ inflight' = [inflight EXCEPT ![c] = NoOp]
    /\ UNCHANGED <<store, cfs, files, handle, adapter, pc, result, trace,
                   pre, calls, setHealthCalled, last, startCtx>>
    /\ UNCHANGED <<lastSet, seen, refused, refusals>>
    /\ UNCHANGED <<facadeVars, hbVars>>

Size(c) ==
    /\ inflight[c].op = "size"
    /\ \E ok \in BOOLEAN :
          cres' = IF ok THEN OkSomeSize(SumSizes(files))
                        ELSE EngineError("size")
    /\ inflight' = [inflight EXCEPT ![c] = NoOp]
    /\ UNCHANGED <<store, cfs, files, handle, adapter, pc, result, trace,
                   pre, calls, setHealthCalled, last, startCtx>>
    /\ UNCHANGED <<lastSet, seen, refused, refusals>>
    /\ UNCHANGED <<facadeVars, hbVars>>

SetHealth(c) ==
    /\ inflight[c].op = "set_health"
    /\ \E ok \in BOOLEAN :
          IF ok
          THEN /\ store' = InsertHealth(store, inflight[c].arg)
               /\ cres' = Ok("set_health")
               /\ lastSet' = inflight[c].arg
          ELSE /\ cres' = EngineError("set_health")
               /\ UNCHANGED <<store, lastSet>>
    /\ inflight' = [inflight EXCEPT ![c] = NoOp]
    /\ UNCHANGED <<cfs, files, handle, adapter, pc, result, trace, pre,
                   calls, setHealthCalled, last, startCtx>>
    /\ UNCHANGED <<seen, refused, refusals>>
    /\ UNCHANGED <<facadeVars, hbVars>>

(* ---------------------------------------------------------------------- *)
(* shutdown                                                                *)
(* ---------------------------------------------------------------------- *)
\* Variant: shutdown takes a shared reference.
CanShutdown_Shared ==
    adapter = "live"

\* shutdown(self) takes the adapter by value: the owner can call it only
\* while no reference to the adapter is borrowed.
CanShutdown ==
    /\ adapter = "live"
    /\ \A c \in Callers : inflight[c] = NoOp

ShutdownBegin ==
    /\ pc = "idle"
    /\ CanShutdown
    /\ adapter' = "consumed"
    /\ pc' = "sd_health"
    /\ result' = Pending("shutdown")
    /\ trace' = <<>>
    /\ pre' = store
    /\ UNCHANGED <<store, cfs, files, handle, inflight, cres, calls,
                   setHealthCalled, last, startCtx>>
    /\ UNCHANGED <<lastSet, seen, refused, refusals>>
    /\ UNCHANGED <<facadeVars, hbVars>>

\* self.set_health(Healthy).await?
ShutdownSetHealthy ==
    /\ pc = "sd_health"
    /\ \E ok \in BOOLEAN :
          LET tPut == Append(trace, Ev("set_health", ShutdownHealth, ok))
          IN  IF HealthyWriteContinues(ok)
              THEN /\ store' = IF ok THEN InsertHealth(store, ShutdownHealth)
                                     ELSE store
                   /\ trace' = tPut
                   /\ pc' = "sd_flush"
                   /\ UNCHANGED <<result, handle>>
              ELSE /\ result' = EngineError("shutdown")
                   /\ trace' = Append(tPut, Ev("close", "-", TRUE))
                   /\ handle' = FALSE
                   /\ pc' = "idle"
                   /\ UNCHANGED store
    /\ UNCHANGED <<cfs, files, adapter, pre, inflight, cres, calls,
                   setHealthCalled, last, startCtx>>
    /\ UNCHANGED <<lastSet, seen, refused, refusals>>
    /\ UNCHANGED <<facadeVars, hbVars>>

\* Ok(self.inner.flush()?), after which self is dropped.
ShutdownFlush ==
    /\ pc = "sd_flush"
    /\ \E ok \in BOOLEAN :
          /\ result' = IF ok THEN Ok("shutdown") ELSE EngineError("shutdown")
          /\ trace' = trace \o <<Ev("flush", "-", ok), Ev("close", "-", TRUE)>>
          /\ last' = IF ok THEN "clean" ELSE "flush_failed"
          /\ files' \in (IF ok THEN FlushOutcomes(files) ELSE {files})
    /\ handle' = FALSE
    /\ pc' = "idle"
    /\ UNCHANGED <<store, cfs, adapter, pre, inflight, cres, calls,
                   setHealthCalled, startCtx>>
    /\ UNCHANGED <<lastSet, seen, refused, refusals>>
    /\ UNCHANGED <<facadeVars, hbVars>>

(* ---------------------------------------------------------------------- *)
(* The process stops (crash, kill, or exit) at any point                   *)
(* ---------------------------------------------------------------------- *)
Crash ==
    /\ pc # "idle" \/ adapter # "none"
    /\ last' = IF adapter = "live"
               THEN IF setHealthCalled THEN "other" ELSE "unclean"
               ELSE IF pc = "idle" THEN last ELSE "other"
    /\ handle' = FALSE
    /\ adapter' = "none"
    /\ pc' = "idle"
    /\ result' = NoResult
    /\ inflight' = [c \in Callers |-> NoOp]
    /\ cres' = NoResult
    /\ UNCHANGED <<store, cfs, files, trace, pre, calls, setHealthCalled,
                   startCtx>>
    /\ UNCHANGED <<lastSet, seen, refused, refusals>>
    /\ UNCHANGED <<facadeVars, hbVars>>

Next ==
    \/ StartBegin
    \/ StartOpen
    \/ StartVersionCheck
    \/ StartHealthCheck
    \/ StartSetIdle
    \/ \E c \in Callers : CallBegin(c)
    \/ \E c \in Callers : GetHealth(c)
    \/ \E c \in Callers : SetHealth(c)
    \/ \E c \in Callers : Size(c)
    \/ ShutdownBegin
    \/ ShutdownSetHealthy
    \/ ShutdownFlush
    \/ Crash

Spec == Init /\ [][Next]_vars

TypeOK ==
    /\ store \in [version : SystemRecords, health : SystemRecords]
    /\ handle \in BOOLEAN
    /\ adapter \in {"none", "live", "consumed"}
    /\ pc \in {"idle", "st_open", "st_version", "st_health", "st_idle",
               "sd_health", "sd_flush"}
    /\ calls \in 0..MaxCalls
    /\ last \in {"none", "clean", "unclean", "flush_failed", "other"}

(* ---------------------------------------------------------------------- *)
(* The snapshot facade (bee-snapshot/src/storage.rs)                       *)
(* ---------------------------------------------------------------------- *)
\* The lifecycle variables of a directory nothing has been started on.
LifeUnused ==
    /\ cfs = {}
    /\ store = [version |-> NoRecord, health |-> NoRecord]
    /\ files = <<>>
    /\ handle = FALSE
    /\ adapter = "none"
    /\ pc = "idle"
    /\ result = NoResult
    /\ trace = <<>>
    /\ pre = store
    /\ inflight = [c \in Callers |-> NoOp]
    /\ cres = NoResult
    /\ calls = 0
    /\ setHealthCalled = FALSE
    /\ last = "none"
    /\ startCtx = "none"
    /\ lastSet = "-"
    /\ seen = NoResult
    /\ refused = NoResult
    /\ refusals = 0

\* The supertraits of trait StorageBackend.
FacadeSupertraits ==
    {"backend::StorageBackend",
     "Fetch<(), SnapshotInfo>",
     "Fetch<(), LedgerIndex>",
     "Insert<SolidEntryPoint, MilestoneIndex>",
     "Insert<(), LedgerIndex>",
     "Insert<OutputId, Output>",
     "Insert<Unspent, ()>",
     "Insert<(Ed25519Address, OutputId), ()>",
     "Insert<(), SnapshotInfo>",
     "Truncate<SolidEntryPoint, MilestoneIndex>",
     "storage::StorageBackend"}

\* Variant: the where clause leaves out the Truncate bound.
BlanketWhere_NoTruncate ==
    {"backend::StorageBackend",
     "Fetch<(), SnapshotInfo>",
     "Fetch<(), LedgerIndex>",
     "Insert<SolidEntryPoint, MilestoneIndex>",
     "Insert<(), LedgerIndex>",
     "Insert<OutputId, Output>",
     "Insert<Unspent, ()>",
     "Insert<(Ed25519Address, OutputId), ()>",
     "Insert<(), SnapshotInfo>",
     "storage::StorageBackend"}

\* The where clause of impl<T> StorageBackend for T.
BlanketWhere ==
    {"backend::StorageBackend",
     "Fetch<(), SnapshotInfo>",
     "Fetch<(), LedgerIndex>",
     "Insert<SolidEntryPoint, MilestoneIndex>",
     "Insert<(), LedgerIndex>",
     "Insert<OutputId, Output>",
     "Insert<Unspent, ()>",
     "Insert<(Ed25519Address, OutputId), ()>",
     "Insert<(), SnapshotInfo>",
     "Truncate<SolidEntryPoint, MilestoneIndex>",
     "storage::StorageBackend"}

\* The capabilities a backend type may implement: the members of the
\* facade and one the facade does not ask for.
Capabilities ==
    FacadeSupertraits \cup BlanketWhere \cup {"Fetch<OutputId, Output>"}

InitFacade ==
    /\ LifeUnused
    /\ implemented \in SUBSET Capabilities
    /\ verdict = "unchecked"
    /\ hbPc = "unspawned"
    /\ hbResult = "-"
    /\ signal = FALSE
    /\ fired = 0
    /\ taken = 0
    /\ beats = 0

\* Trait resolution for T: StorageBackend: the blanket implementation is the
\* only one, and it applies exactly when T meets its where clause.
ResolveFacade ==
    /\ verdict = "unchecked"
    /\ verdict' = IF BlanketWhere \subseteq implemented
                  THEN "implemented" ELSE "unsatisfied"
    /\ UNCHANGED <<lifeVars, implemented, hbVars>>

NextFacade == ResolveFacade

SpecFacade == InitFacade /\ [][NextFacade]_vars

(* ---------------------------------------------------------------------- *)
(* The heartbeater worker (bee-protocol/src/workers/heartbeater.rs)        *)
(* ---------------------------------------------------------------------- *)
\* ShutdownStream::next: None once the shutdown signal has fired, otherwise
\* the next tick of the wrapped interval when one is due.
ShutdownStreamNext(fired_, tickDue) ==
    IF fired_ THEN "None" ELSE IF tickDue THEN "Some" ELSE "Pending"

\* Variant: the loop does not test the item.
WhileCondition_Always(item) == TRUE

\* while ticker.next().await.is_some()
WhileCondition(item) == item = "Some"

InitHeartbeater ==
    /\ LifeUnused
    /\ implemented = {}
    /\ verdict = "unchecked"
    /\ hbPc = "unspawned"
    /\ hbResult = "-"
    /\ signal = FALSE
    /\ fired = 0
    /\ taken = 0
    /\ beats = 0

\* HeartbeaterWorker::start: spawn the task and return Ok(Self::default()).
HbStart ==
    /\ hbPc = "unspawned"
    /\ hbPc' = "spawned"
    /\ hbResult' = "Ok"
    /\ UNCHANGED <<lifeVars, facadeVars, signal, fired, taken, beats>>

\* The task starts: info!("Running.") and the ticker is built; the first
\* tick of a tokio interval is due at once.
HbRun ==
    /\ hbPc = "spawned"
    /\ hbPc' = "waiting"
    /\ fired' = 1
    /\ UNCHANGED <<lifeVars, facadeVars, hbResult, signal, taken, beats>>

\* CHECK_HEARTBEATS_INTERVAL elapses while the ticker exists.
Tick ==
    /\ hbPc \in {"waiting", "broadcasting"}
    /\ fired < MaxTicks
    /\ fired' = fired + 1
    /\ UNCHANGED <<lifeVars, facadeVars, hbPc, hbResult, signal, taken, beats>>

\* The node's shutdown signal fires.
SignalShutdown ==
    /\ ~signal
    /\ signal' = TRUE
    /\ UNCHANGED <<lifeVars, facadeVars, hbPc, hbResult, fired, taken, beats>>

\* ticker.next().await resolves and the loop condition is tested; leaving
\* the loop runs info!("Stopped.") and ends the task.
HbNext ==
    /\ hbPc = "waiting"
    /\ LET item == ShutdownStreamNext(signal, fired > taken)
       IN  /\ item # "Pending"
           /\ taken' = IF item = "Some" THEN taken + 1 ELSE taken
           /\ hbPc' = IF WhileCondition(item) THEN "broadcasting"
                                               ELSE "stopped"
    /\ UNCHANGED <<lifeVars, facadeVars, hbResult, signal, fired, beats>>

\* helper::broadcast_heartbeat(..).await
HbBroadcast ==
    /\ hbPc = "broadcasting"
    /\ beats <= MaxTicks
    /\ beats' = beats + 1
    /\ hbPc' = "waiting"
    /\ UNCHANGED <<lifeVars, facadeVars, hbResult, signal, fired, taken>>

NextHeartbeater ==
    \/ HbStart
    \/ HbRun
    \/ Tick
    \/ SignalShutdown
    \/ HbNext
    \/ HbBroadcast

\* The runtime keeps polling a spawned task that can make progress.
SpecHeartbeater ==
    /\ InitHeartbeater
    /\ [][NextHeartbeater]_vars
    /\ WF_vars(HbRun)
    /\ WF_vars(HbNext)
    /\ WF_vars(HbBroadcast)

(* ---------------------------------------------------------------------- *)
(* Properties                                                              *)
(* ---------------------------------------------------------------------- *)
\* Every engine call of the owner's latest call succeeded.
EngineOk == \A i \in 1..Len(trace) : trace[i].ok

\* The owner's latest call was start and it has returned.
StartReturned == pc = "idle" /\ result.op = "start"

\* The owner's latest call issued no write of a system record.
NoSystemWrite ==
    \A i \in 1..Len(trace) : trace[i].call \notin {"insert", "set_health"}

CurrentStore ==
    [version |-> VersionRec(STORAGE_VERSION), health |-> HealthRec("Idle")]

FreshStore == [version |-> NoRecord, health |-> NoRecord]

\* C1: a start that finds Version = STORAGE_VERSION and Health = Idle
\* returns UnhealthyStorage(Idle) (the engine error when one of its engine
\* calls failed), returns no adapter, and leaves both records as they were.
C1_CrashDetectionGate ==
    (StartReturned /\ pre = CurrentStore) =>
        /\ result = IF EngineOk THEN UnhealthyStorage("Idle")
                                ELSE EngineError("start")
        /\ adapter # "live"
        /\ ~handle
        /\ store = pre
        /\ NoSystemWrite

C1_Witness ==
    /\ StartReturned
    /\ pre = CurrentStore
    /\ result = UnhealthyStorage("Idle")

\* C2: the start that follows a run in which start succeeded and the
\* process stopped without shutdown and without any set_health never
\* returns an adapter: it fails with UnhealthyStorage (or with the engine
\* error when one of its engine calls failed).
C2_UncleanStopRefused ==
    /\ (startCtx = "unclean" /\ result.op = "start") => adapter # "live"
    /\ (StartReturned /\ startCtx = "unclean") =>
          result = IF EngineOk THEN UnhealthyStorage("Idle")
                               ELSE EngineError("start")

C2_Witness ==
    /\ StartReturned
    /\ startCtx = "unclean"
    /\ result = UnhealthyStorage("Idle")

\* C3: a start that finds a Version record v other than STORAGE_VERSION
\* fails with VersionMismatch(v, STORAGE_VERSION) (the engine error when
\* opening or fetching failed), returns no adapter and writes neither the
\* Version nor the Health record.
C3_VersionGate ==
    (StartReturned /\ pre.version.tag = "Version"
                   /\ pre.version.ver # STORAGE_VERSION) =>
        /\ result = IF EngineOk
                    THEN VersionMismatch(pre.version.ver, STORAGE_VERSION)
                    ELSE EngineError("start")
        /\ adapter # "live"
        /\ store = pre
        /\ NoSystemWrite

C3_Witness ==
    /\ StartReturned
    /\ pre.version = VersionRec(0)
    /\ result = VersionMismatch(0, STORAGE_VERSION)

\* C4: while an adapter is live and neither set_health nor shutdown has
\* been called on it, the persisted Version is STORAGE_VERSION and the
\* persisted Health is Idle, on a fresh directory and on a reopened store.
C4_AfterStart ==
    (adapter = "live" /\ ~setHealthCalled) => store = CurrentStore

C4_Witness ==
    /\ adapter = "live"
    /\ ~setHealthCalled
    /\ pre = FreshStore
    /\ result = Ok("start")

C4_WitnessReopened ==
    /\ adapter = "live"
    /\ ~setHealthCalled
    /\ pre = [version |-> VersionRec(STORAGE_VERSION),
              health |-> HealthRec("Healthy")]

\* C5: a start that follows a shutdown that returned Ok succeeds (unless
\* one of its engine calls fails), any number of times; get_health on the
\* started adapter returns Some(Idle) while no set_health was called; and
\* the persisted Health is Healthy from the successful shutdown until the
\* following start.
C5_CleanRestartCycle ==
    /\ (StartReturned /\ startCtx = "clean") =>
          result = IF EngineOk THEN Ok("start") ELSE EngineError("start")
    /\ (cres.op = "get_health" /\ ~setHealthCalled /\ cres.kind # "Engine")
          => cres = OkSome("get_health", "Idle")
    /\ (last = "clean") => store.health = HealthRec("Healthy")

C5_Witness ==
    /\ startCtx = "clean"
    /\ calls = MaxCalls
    /\ result = Ok("start")
    /\ cres = OkSome("get_health", "Idle")

\* The persisted Health record changes to Healthy in this step.
BecomesHealthy ==
    /\ store.health # HealthRec("Healthy")
    /\ store'.health = HealthRec("Healthy")

\* This step is shutdown's write of the Health record.
ShutdownWriteStep == pc = "sd_health"

\* This step is a caller's set_health(Healthy).
SetHealthyStep ==
    \E c \in Callers :
        /\ inflight[c] = [op |-> "set_health", arg |-> "Healthy"]
        /\ inflight'[c] = NoOp

\* C6 as stated: the persisted Health record changes to Healthy only as a
\* step of shutdown.
C6_OnlyShutdownWritesHealthy ==
    [][BecomesHealthy => ShutdownWriteStep]_vars

\* C6, amended: the persisted Health record changes to Healthy only as a
\* step of shutdown or of a caller's set_health(Healthy); no step of start
\* or get_health makes it Healthy.
C6_HealthyOnlyByShutdownOrSetHealth ==
    [][BecomesHealthy => (ShutdownWriteStep \/ SetHealthyStep)]_vars

C6_Witness ==
    /\ pc = "sd_flush"
    /\ pre.health = HealthRec("Idle")
    /\ store.health = HealthRec("Healthy")

\* Positions in the trace of the owner's latest call.
Pos(call) == {i \in 1..Len(trace) : trace[i].call = call}

\* start fetched a record of the wrong kind under the Version key, or
\* passed the version check and fetched one under the Health key.
CorruptRecordSeenByStart ==
    /\ StartReturned
    /\ EngineOk
    /\ \/ pre.version.tag = "Health"
       \/ /\ pre.version \in {NoRecord, VersionRec(STORAGE_VERSION)}
          /\ pre.health.tag = "Version"

\* C7 as stated: a record of the wrong kind under the Version or the Health
\* key makes start, and get_health, return an error value instead of
\* panicking.
C7_CorruptRecordIsAnError ==
    /\ CorruptRecordSeenByStart => result.kind # "panic"
    /\ cres.op = "get_health" => cres.kind # "panic"

\* C7, amended: a record of the wrong kind under the Version key, or under
\* the Health key read by start's call of get_health, makes start panic: no
\* error value and no adapter are returned, and the record is neither
\* tolerated nor coerced (it stays as it was; the only write such a start
\* can have made is the insertion of an absent Version).
C7_CorruptRecordPanics ==
    CorruptRecordSeenByStart =>
        /\ result = Panicked("start")
        /\ adapter # "live"
        /\ ~handle
        /\ store.health = pre.health
        /\ store.version = IF pre.version = NoRecord
                           THEN VersionRec(STORAGE_VERSION)
                           ELSE pre.version
        /\ Pos("set_health") = {}

C7_Witness ==
    /\ StartReturned
    /\ pre.version = VersionRec(STORAGE_VERSION)
    /\ pre.health.tag = "Version"
    /\ result = Panicked("start")

C7_WitnessVersionKey ==
    /\ StartReturned
    /\ pre.version.tag = "Health"
    /\ result = Panicked("start")

\* C8: shutdown writes Health = Healthy, then flushes, then releases the
\* handle; no flush is issued before a successful Healthy write, a failed
\* Healthy write makes shutdown return that error without flushing, and
\* after a shutdown that returned Ok the persisted Health is Healthy.
C8_ShutdownOrder ==
    result.op = "shutdown" =>
        /\ \A i \in Pos("flush") :
              /\ i = 2
              /\ trace[1] = Ev("set_health", "Healthy", TRUE)
        /\ \A i \in Pos("close") :
              /\ i = Len(trace)
              /\ i > 1
              /\ ~handle
        /\ \A i \in Pos("set_health") :
              /\ i = 1
              /\ trace[i].arg = "Healthy"
              /\ (~trace[i].ok =>
                    /\ Pos("flush") = {}
                    /\ result = EngineError("shutdown")
                    /\ store = pre)
        /\ (pc = "idle" => Pos("close") # {})
        /\ (result = Ok("shutdown") =>
              /\ trace = <<Ev("set_health", "Healthy", TRUE),
                           Ev("flush", "-", TRUE), Ev("close", "-", TRUE)>>
              /\ store.health = HealthRec("Healthy"))

C8_Witness ==
    /\ result = Ok("shutdown")
    /\ pre.health = HealthRec("Idle")

C8_WitnessWriteFails ==
    /\ result = EngineError("shutdown")
    /\ trace = <<Ev("set_health", "Healthy", FALSE), Ev("close", "-", TRUE)>>

\* Some caller is executing an operation on the adapter.
OperationInFlight == \E c \in Callers : inflight[c] # NoOp

\* shutdown has begun on the adapter (and may have returned).
ShutdownBegun == pc \in {"sd_health", "sd_flush"} \/ adapter = "consumed"

\* C9: no get_health, set_health or size on an adapter is executing while,
\* or after, shutdown of that adapter has begun; an operation in flight is
\* always on a live adapter whose engine handle is open.
C9_NoOperationRacesShutdown ==
    /\ ShutdownBegun => ~OperationInFlight
    /\ OperationInFlight => (adapter = "live" /\ handle /\ pc = "idle")

C9_Witness ==
    /\ pc = "sd_flush"
    /\ cres = Ok("set_health")
    /\ ~OperationInFlight

\* The engine calls of a start that returned an adapter.
StartTraceOpen ==
    <<Ev("open", "-", TRUE), Ev("flush", "-", TRUE),
      Ev("flush_cf", CF_SYSTEM, TRUE)>>

StartTraceExisting ==
    StartTraceOpen \o <<Ev("fetch", "version", TRUE),
                        Ev("fetch", "health", TRUE),
                        Ev("set_health", "Idle", TRUE)>>

StartTraceFresh ==
    StartTraceOpen \o <<Ev("fetch", "version", TRUE),
                        Ev("insert", "version", TRUE),
                        Ev("fetch", "health", TRUE),
                        Ev("set_health", "Idle", TRUE)>>

\* C10: an adapter is live only after its start opened the engine with all
\* declared column families, passed the version check, passed the health
\* check and wrote Health = Idle, in that order and once each; a start that
\* fails returns no adapter, and callers operate only on an adapter that
\* start returned.
C10_ChecksPrecedeExposure ==
    /\ adapter = "live" =>
          /\ result = Ok("start")
          /\ handle
          /\ ColumnFamilies \subseteq cfs
          /\ pre.version \in {NoRecord, VersionRec(STORAGE_VERSION)}
          /\ pre.health \in {NoRecord, HealthRec("Healthy")}
          /\ trace = IF pre.version = NoRecord THEN StartTraceFresh
                                               ELSE StartTraceExisting
    /\ (result.op = "start" /\ result # Ok("start")) =>
          (adapter # "live" /\ ~OperationInFlight)
    /\ (StartReturned /\ result # Ok("start")) => ~handle
    /\ OperationInFlight => adapter = "live"

C10_Witness ==
    /\ adapter = "live"
    /\ OperationInFlight
    /\ trace = StartTraceFresh

C10_WitnessFailedStart ==
    /\ StartReturned
    /\ result = EngineError("start")
    /\ Len(trace) > 4

\* C11: on a live adapter a get_health that follows a set_health(h) that
\* returned Ok, with no set_health completed in between, returns Some(h);
\* the Health key holds exactly the record written last, so a later
\* set_health replaces the earlier value; and the get_health that start
\* runs on a store whose Health record was never written returns None, not
\* an error, so that start goes on.
C11_HealthRoundTrip ==
    /\ (cres.op = "get_health" /\ cres.kind # "Engine" /\ lastSet # "-")
          => cres = OkSome("get_health", lastSet)
    /\ (adapter = "live" /\ lastSet # "-")
          => store.health = HealthRec(lastSet)
    /\ (pre.health = NoRecord /\ seen.op = "get_health"
                              /\ seen.kind # "Engine")
          => seen = OkNone("get_health")
    /\ (StartReturned /\ EngineOk /\ seen = OkNone("get_health"))
          => result = Ok("start")

C11_Witness ==
    /\ adapter = "live"
    /\ lastSet = "Healthy"
    /\ cres = OkSome("get_health", "Healthy")

C11_WitnessNone ==
    /\ pre.health = NoRecord
    /\ seen = OkNone("get_health")
    /\ result = Ok("start")

\* The sum of the sizes of the files from position i on.
RECURSIVE TotalFrom(_, _)
TotalFrom(f, i) == IF i > Len(f) THEN 0 ELSE f[i] + TotalFrom(f, i + 1)

\* C12: size returns Some(s) with s the sum of the sizes of the engine's
\* live data files (Some(0) when there are none); it never returns None
\* while the engine reports its files, and a failing engine call is
\* returned as the engine error.
C12_SizeSumsLiveFiles ==
    (adapter = "live" /\ cres.op = "size") =>
        /\ cres.kind # "OkNone"
        /\ \/ cres = OkSomeSize(TotalFrom(files, 1))
           \/ cres = EngineError("size")
        /\ cres.size >= 0

C12_Witness ==
    /\ adapter = "live"
    /\ Len(files) = 2
    /\ files[1] # files[2]
    /\ cres = OkSomeSize(3)

C12_WitnessNoFiles ==
    /\ adapter = "live"
    /\ files = <<>>
    /\ cres = OkSomeSize(0)

\* C14: a start on a store with a Version record other than STORAGE_VERSION
\* and a Health record Idle fails with VersionMismatch, not with
\* UnhealthyStorage, and neither reads nor writes the Health record.
C14_VersionCheckFirst ==
    (StartReturned /\ pre.version.tag = "Version"
                   /\ pre.version.ver # STORAGE_VERSION
                   /\ pre.health = HealthRec("Idle")) =>
        /\ result = IF EngineOk
                    THEN VersionMismatch(pre.version.ver, STORAGE_VERSION)
                    ELSE EngineError("start")
        /\ result.kind # "UnhealthyStorage"
        /\ \A i \in 1..Len(trace) :
              /\ trace[i].arg # "health"
              /\ trace[i].call # "set_health"
        /\ seen = NoResult
        /\ store = pre

C14_Witness ==
    /\ StartReturned
    /\ pre = [version |-> VersionRec(MaxVersion), health |-> HealthRec("Idle")]
    /\ result = VersionMismatch(MaxVersion, STORAGE_VERSION)

\* C15: once a start has returned UnhealthyStorage or VersionMismatch, no
\* later start returns an adapter: each returns the same error (or the
\* engine error when one of its engine calls failed), and the persisted
\* Health, respectively Version, record stays what it was.
C15_RefusalPermanent ==
    refused # NoResult =>
        /\ adapter # "live"
        /\ ~OperationInFlight
        /\ StartReturned =>
              result = IF EngineOk THEN refused ELSE EngineError("start")
        /\ refused.kind = "UnhealthyStorage" =>
              store = [version |-> VersionRec(STORAGE_VERSION),
                       health |-> HealthRec(refused.health)]
        /\ refused.kind = "VersionMismatch" =>
              /\ store.version = VersionRec(refused.stored)
              /\ refused.stored # STORAGE_VERSION
              /\ store.health = pre.health
        /\ (StartReturned /\ result = refused) =>
              /\ store.health = pre.health
              /\ Pos("set_health") = {}

C15_Witness ==
    /\ StartReturned
    /\ refusals = MaxCalls
    /\ result = UnhealthyStorage("Idle")

C15_WitnessVersion ==
    /\ StartReturned
    /\ refusals > 1
    /\ result.kind = "VersionMismatch"

\* C16: when shutdown's write of Healthy succeeds and its flush fails,
\* shutdown returns the engine error, the persisted Health stays Healthy,
\* and the next start passes the health check and succeeds (unless one of
\* its engine calls fails).
C16_FlushFailureKeepsHealthy ==
    /\ (result.op = "shutdown" /\ pc = "idle" /\ Pos("flush") # {}
           /\ ~trace[2].ok) =>
          /\ result = EngineError("shutdown")
          /\ store.health = HealthRec("Healthy")
          /\ ~handle
    /\ last = "flush_failed" => store.health = HealthRec("Healthy")
    /\ (startCtx = "flush_failed" /\ seen.op = "get_health"
                                  /\ seen.kind # "Engine")
          => seen = OkSome("get_health", "Healthy")
    /\ (StartReturned /\ startCtx = "flush_failed") =>
          result = IF EngineOk THEN Ok("start") ELSE EngineError("start")

C16_Witness ==
    /\ StartReturned
    /\ startCtx = "flush_failed"
    /\ result = Ok("start")

\* This step is start's insertion of an absent Version record.
VersionInsertStep ==
    /\ pc = "st_version"
    /\ store.version = NoRecord
    /\ store'.version = VersionRec(STORAGE_VERSION)

\* C17: the Version record changes only when start inserts STORAGE_VERSION
\* for an absent record; once a record is present under the Version key no
\* step of start, get_health, set_health, size or shutdown changes or
\* removes it.
C17_VersionWriteOnce ==
    [][store'.version # store.version => VersionInsertStep]_vars

C17_Witness ==
    /\ pc = "st_health"
    /\ pre.version = NoRecord
    /\ store.version = VersionRec(STORAGE_VERSION)

\* C13: a backend type gets the snapshot facade if and only if it
\* implements every member the facade's declaration lists; the members the
\* declaration requires are the members the blanket implementation
\* requires.
C13_FacadeStructural ==
    /\ FacadeSupertraits = BlanketWhere
    /\ verdict = "implemented" => FacadeSupertraits \subseteq implemented
    /\ verdict = "unsatisfied" => ~(FacadeSupertraits \subseteq implemented)

C13_Witness ==
    /\ verdict = "implemented"
    /\ implemented = Capabilities

C13_WitnessLacking ==
    /\ verdict = "unsatisfied"
    /\ implemented = FacadeSupertraits
                        \ {"Truncate<SolidEntryPoint, MilestoneIndex>"}

\* The counters of the heartbeater agree with its position.
HeartbeatPerTick ==
    /\ beats <= taken
    /\ taken <= fired
    /\ hbPc \in {"waiting", "stopped"} => beats = taken
    /\ hbPc = "broadcasting" => beats + 1 = taken
    /\ hbPc \in {"unspawned", "spawned"} => beats = 0
    /\ hbPc # "unspawned" => hbResult = "Ok"

C18_WitnessStartReturned ==
    /\ hbResult = "Ok"
    /\ hbPc = "spawned"
====
